---- MODULE Spec2Model ----
(***************************************************************************)
(* Notovo: the document version history and the document view.             *)
(*                                                                         *)
(* Two version engines live in the repository:                             *)
(*   - the useVersionHistory hook (src/hooks/useVersionHistory.ts), a pure *)
(*     in-memory state machine over {versions, currentVersionIndex};       *)
(*   - MainContent (src/unnamed/part_007), which keeps versions and        *)
(*     currentVersionIndex as React state, mirrors every snapshot into the *)
(*     document_versions table (src/unnamed/part_000) and is driven by the *)
(*     Chat component (src/unnamed/part_008).                              *)
(* The document view (DocRender in src/components/ChatSection.tsx) turns a *)
(* selection of rendered text into offsets of a block's content, which     *)
(* applyEdit of Chat uses to splice the edited text in.                    *)
(*                                                                         *)
(* Strings are sequences of one-character strings, arrays are sequences.   *)
(* Array positions are 0-based in the source and 1-based here: a cursor c  *)
(* of the source addresses element c + 1 of the sequence.                  *)
(***************************************************************************)
EXTENDS Integers, Sequences, FiniteSets, TLC

VARIABLES
    state,      \* useVersionHistory: [versions, currentVersionIndex]
    now,        \* useVersionHistory: the value Date.now() returns
    created,    \* useVersionHistory: number of DocumentVersion objects built so far
    ops,        \* useVersionHistory: number of calls made other than createMajorVersion
    undone,     \* useVersionHistory: the state the last undo started from, until another call
    documentBlocks,       \* useDocumentStorage: documentBlocks
    isDocumentLoading,    \* useDocumentStorage: isLoading
    versions,             \* MainContent: versions
    currentVersionIndex,  \* MainContent: currentVersionIndex
    isLoadingVersions,    \* MainContent: isLoadingVersions
    lastBlocksHashRef,    \* MainContent: lastBlocksHashRef.current
    isCreatingVersionRef, \* MainContent: isCreatingVersionRef.current
    cv,                   \* MainContent: the createVersion call past its guards
    timers,               \* MainContent: callbacks queued by setTimeout(..., 0)
    db,                   \* the session's rows of table document_versions
    rowIds,               \* number of rows inserted so far (row ids)
    generatedDocument,    \* the session's row of generated_documents when the page
                          \* loads, Null when there is none
    blockStamps,          \* number of generation answers so far (Date.now() of block ids)
    input,                \* Chat: input
    selection,            \* UIStateProvider: selection
    loading,              \* Chat: loading
    isProcessing,         \* Chat: isProcessing
    isProcessingIntent,   \* UIStateProvider: isProcessingIntent
    calls,                \* Chat: the handleSend calls that are suspended at an await
    sends,                \* number of handleSend calls that passed the guards
    mops,                 \* number of events outside the plain editing loop
    history,              \* what has happened so far, for the properties
    uiMode,               \* UIStateProvider: uiMode
    lastEdit              \* the last applyEdit call: its arguments and what it did

hookVars == <<state, now, created, ops, undone>>

docVars == <<documentBlocks, isDocumentLoading>>
versionVars == <<versions, currentVersionIndex, isLoadingVersions,
                 lastBlocksHashRef, isCreatingVersionRef, cv, timers>>
dbVars == <<db, rowIds, generatedDocument>>
chatVars == <<input, selection, loading, isProcessing, isProcessingIntent, calls>>
countVars == <<blockStamps, sends, mops, history>>

mainVars == <<docVars, versionVars, dbVars, chatVars, countVars>>

uiVars == <<uiMode, lastEdit>>

vars == <<hookVars, mainVars, uiVars>>

----------------------------------------------------------------------------
(* Bounds of the exploration *)

\* DocumentVersion objects built in one run of the hook
MaxCreated == 11
\* events other than createMajorVersion and redo (edits, appends, replaceBlocks,
\* undo, clearVersions, a tick of the clock) in one run of the hook
MaxHookOps == 2

----------------------------------------------------------------------------
(* JavaScript array and string primitives *)

Min(a, b) == IF a < b THEN a ELSE b
Max(a, b) == IF a > b THEN a ELSE b

\* Array.prototype.slice(start, end) with 0-based, possibly negative, arguments
JsSlice(s, start, end) ==
    LET len  == Len(s)
        from == IF start < 0 THEN Max(len + start, 0) ELSE Min(start, len)
        to   == IF end < 0 THEN Max(len + end, 0) ELSE Min(end, len)
    IN  SubSeq(s, from + 1, to)

\* Array.prototype.slice(start): to the end of the array
JsSliceFrom(s, start) == JsSlice(s, start, Len(s))

\* String.prototype.substring(a, b): arguments clamped to [0, length], swapped if a > b
Substring(str, a, b) ==
    LET ca == Max(0, Min(a, Len(str)))
        cb == Max(0, Min(b, Len(str)))
    IN  SubSeq(str, Min(ca, cb) + 1, Max(ca, cb))

\* String.prototype.substring(a): to the end of the string
SubstringFrom(str, a) == Substring(str, a, Len(str))

----------------------------------------------------------------------------
(* Blocks *)

Block(id, content) == [id |-> id, type |-> "paragraph", content |-> content]

\* blocks.map(f), for a sequence
MapBlocks(blocks, f(_)) == [i \in 1..Len(blocks) |-> f(blocks[i])]

----------------------------------------------------------------------------
(* The state right after the components have mounted *)

\* null
Null == [null |-> TRUE]

\* no createVersion call is past its guards
NoCall == [pc |-> "idle"]

\* nothing has happened yet
NoHistory ==
    [inserted |-> {}, reinserted |-> FALSE, persistFailed |-> FALSE, unsaved |-> {},
     deduped |-> FALSE, branched |-> FALSE, earlySend |-> FALSE,
     closedSelection |-> FALSE, saveFailed |-> FALSE, announced |-> Null]

\* applyEdit has not been called
NoEdit == [count |-> 0]

\* useState / useRef initial values of MainContent, useDocumentStorage, Chat and
\* UIStateProvider
Mounted ==
    /\ documentBlocks = <<>>
    /\ isDocumentLoading = TRUE
    /\ versions = <<>>
    /\ currentVersionIndex = -1
    /\ isLoadingVersions = TRUE
    /\ lastBlocksHashRef = <<>>
    /\ isCreatingVersionRef = FALSE
    /\ cv = NoCall
    /\ timers = <<>>
    /\ input = <<>>
    /\ selection = Null
    /\ loading = FALSE
    /\ isProcessing = FALSE
    /\ isProcessingIntent = FALSE
    /\ calls = <<>>
    /\ sends = 0
    /\ history = NoHistory
    /\ uiMode = "chat"
    /\ lastEdit = NoEdit

\* the page is loaded for a session that has no stored rows yet
MainMounted ==
    /\ Mounted
    /\ mops = 0
    /\ db = {}
    /\ rowIds = 0
    /\ generatedDocument = Null
    /\ blockStamps = 0

\* the hook is not in use
HookUnused ==
    /\ state = [versions |-> <<>>, currentVersionIndex |-> -1]
    /\ now = 0
    /\ created = 0
    /\ ops = 0
    /\ undone = Null

----------------------------------------------------------------------------
(* useVersionHistory *)

MAX_VERSIONS == 10

\* the block list createMajorVersion is called with
HookBlockInputs == { <<Block("b1", <<"a", "b">>), Block("b2", <<"a">>)>> }

\* the block lists replaceBlocks and addBlocksToCurrentVersion are called with
HookMoreInputs == { <<Block("b3", <<"b">>)>> }

HookBlockIds == {"b1", "zz"}
HookTexts == { <<"x">> }
HookOffsets == 0..2

\* const newVersion: DocumentVersion = {...}; seq is the ordinal of the object,
\* kept to tell apart two versions built in the same millisecond
NewVersion(blocks, description, t, n) ==
    [id |-> t, timestamp |-> t, blocks |-> blocks, changeType |-> "MAJOR",
     description |-> description, seq |-> n]

\* a trim that keeps the oldest MAX_VERSIONS entries: slice(0, MAX_VERSIONS)
TrimKeepingOldest(newVersions) ==
    IF Len(newVersions) > MAX_VERSIONS
    THEN JsSlice(newVersions, 0, MAX_VERSIONS)
    ELSE newVersions

\* if (newVersions.length > MAX_VERSIONS) newVersions = newVersions.slice(-MAX_VERSIONS)
TrimToMax(newVersions) ==
    IF Len(newVersions) > MAX_VERSIONS
    THEN JsSliceFrom(newVersions, 0 - MAX_VERSIONS)
    ELSE newVersions

\* no slice: the versions after the cursor are kept
UnslicedVersions(prev) == prev.versions

\* prev.versions.slice(0, prev.currentVersionIndex + 1)
SlicedVersions(prev) == JsSlice(prev.versions, 0, prev.currentVersionIndex + 1)

\* the updater of createMajorVersion
CreateMajorVersionUpdate(prev, newBlocks, description, t, n) ==
    LET newVersion  == NewVersion(newBlocks, description, t, n)
        newVersions == TrimToMax(Append(SlicedVersions(prev), newVersion))
    IN  [versions |-> newVersions, currentVersionIndex |-> Len(newVersions) - 1]

\* the updater of applyMinorEdit
ApplyMinorEditEverywhere(prev, blockId, newContent, t) ==
    IF prev.currentVersionIndex < 0 \/ Len(prev.versions) = 0
    THEN prev
    ELSE LET edit(block) == IF block.id = blockId
                            THEN [block EXCEPT !.content = newContent]
                            ELSE block
             upd(version) == [version EXCEPT !.blocks = MapBlocks(version.blocks, edit),
                                             !.timestamp = t]
         IN  [prev EXCEPT !.versions = [i \in 1..Len(prev.versions) |->
                                          upd(prev.versions[i])]]

ApplyMinorEditUpdate(prev, blockId, newContent, t) ==
    IF prev.currentVersionIndex < 0 \/ Len(prev.versions) = 0
    THEN prev
    ELSE LET cur == prev.versions[prev.currentVersionIndex + 1]
             edit(block) == IF block.id = blockId
                            THEN [block EXCEPT !.content = newContent]
                            ELSE block
             upd == [cur EXCEPT !.blocks = MapBlocks(cur.blocks, edit),
                                !.timestamp = t]
         IN  [prev EXCEPT !.versions[prev.currentVersionIndex + 1] = upd]

\* the updater of applyContentEdit
ApplyContentEditUpdate(prev, blockId, startOffset, endOffset, newText, t) ==
    IF prev.currentVersionIndex < 0 \/ Len(prev.versions) = 0
    THEN prev
    ELSE LET cur == prev.versions[prev.currentVersionIndex + 1]
             edit(block) ==
                 IF block.id # blockId
                 THEN block
                 ELSE LET before == Substring(block.content, 0, startOffset)
                          after  == SubstringFrom(block.content, endOffset)
                      IN  [block EXCEPT !.content = before \o newText \o after]
             upd == [cur EXCEPT !.blocks = MapBlocks(cur.blocks, edit),
                                !.timestamp = t]
         IN  [prev EXCEPT !.versions[prev.currentVersionIndex + 1] = upd]

\* an undo that steps back from position 0 as well
UndoPastFirst(prev) ==
    IF prev.currentVersionIndex < 0
    THEN prev
    ELSE [prev EXCEPT !.currentVersionIndex = prev.currentVersionIndex - 1]

\* the updater of undo
UndoUpdate(prev) ==
    IF prev.currentVersionIndex <= 0
    THEN prev
    ELSE [prev EXCEPT !.currentVersionIndex = prev.currentVersionIndex - 1]

\* the updater of redo
RedoToLatest(prev) ==
    IF prev.currentVersionIndex >= Len(prev.versions) - 1
    THEN prev
    ELSE [prev EXCEPT !.currentVersionIndex = Len(prev.versions) - 1]

RedoUpdate(prev) ==
    IF prev.currentVersionIndex >= Len(prev.versions) - 1
    THEN prev
    ELSE [prev EXCEPT !.currentVersionIndex = prev.currentVersionIndex + 1]

\* the updater of addBlocksToCurrentVersion
AddBlocksUpdate(prev, newBlocks, isMajorChange, t, n) ==
    IF isMajorChange \/ Len(prev.versions) = 0
    THEN LET combinedBlocks ==
                 (IF prev.currentVersionIndex >= 0
                  THEN prev.versions[prev.currentVersionIndex + 1].blocks
                  ELSE <<>>) \o newBlocks
             newVersion  == NewVersion(combinedBlocks, "Added new content", t, n)
             newVersions == TrimToMax(Append(SlicedVersions(prev), newVersion))
         IN  [versions |-> newVersions, currentVersionIndex |-> Len(newVersions) - 1]
    ELSE LET cur == prev.versions[prev.currentVersionIndex + 1]
             upd == [cur EXCEPT !.blocks = cur.blocks \o newBlocks,
                                !.timestamp = t]
         IN  [prev EXCEPT !.versions[prev.currentVersionIndex + 1] = upd]

\* currentVersion?.blocks || []
CurrentBlocks(st) ==
    IF st.currentVersionIndex < 0 \/ Len(st.versions) = 0
    THEN <<>>
    ELSE st.versions[st.currentVersionIndex + 1].blocks

\* useState initialiser: no initial blocks, or one 'Initial version'
HookInitialState(initialBlocks) ==
    IF Len(initialBlocks) = 0
    THEN [versions |-> <<>>, currentVersionIndex |-> -1]
    ELSE [versions |-> <<NewVersion(initialBlocks, "Initial version", 0, 1)>>,
          currentVersionIndex |-> 0]

HookInit ==
    /\ \E initialBlocks \in HookBlockInputs \cup {<<>>} :
          /\ state = HookInitialState(initialBlocks)
          /\ created = Len(state.versions)
    /\ now = 0
    /\ ops = 0
    /\ undone = Null
    /\ MainMounted

\* the clock advances between two calls
Tick ==
    /\ ops < MaxHookOps
    /\ now' = now + 1
    /\ ops' = ops + 1
    /\ UNCHANGED <<state, created, undone, mainVars, uiVars>>

CreateMajorVersion ==
    /\ created < MaxCreated
    /\ \E newBlocks \in HookBlockInputs :
          state' = CreateMajorVersionUpdate(state, newBlocks, "Major change",
                                            now, created + 1)
    /\ created' = created + 1
    /\ undone' = Null
    /\ UNCHANGED <<now, ops, mainVars, uiVars>>

\* replaceBlocks: createMajorVersion(newBlocks, 'Document regenerated')
ReplaceBlocks ==
    /\ created < MaxCreated
    /\ ops < MaxHookOps
    /\ \E newBlocks \in HookMoreInputs :
          state' = CreateMajorVersionUpdate(state, newBlocks, "Document regenerated",
                                            now, created + 1)
    /\ created' = created + 1
    /\ ops' = ops + 1
    /\ undone' = Null
    /\ UNCHANGED <<now, mainVars, uiVars>>

\* addBlocksToCurrentVersion(newBlocks), isMajorChange defaulting to true
AddBlocksMajor ==
    /\ created < MaxCreated
    /\ ops < MaxHookOps
    /\ \E newBlocks \in HookMoreInputs :
          state' = AddBlocksUpdate(state, newBlocks, TRUE, now, created + 1)
    /\ created' = created + 1
    /\ ops' = ops + 1
    /\ undone' = Null
    /\ UNCHANGED <<now, mainVars, uiVars>>

\* addBlocksToCurrentVersion(newBlocks, false): a new version on an empty
\* history, an in-place append otherwise
AddBlocksMinor ==
    /\ ops < MaxHookOps
    /\ Len(state.versions) = 0 => created < MaxCreated
    /\ \E newBlocks \in HookMoreInputs :
          state' = AddBlocksUpdate(state, newBlocks, FALSE, now, created + 1)
    /\ created' = IF Len(state.versions) = 0 THEN created + 1 ELSE created
    /\ ops' = ops + 1
    /\ undone' = Null
    /\ UNCHANGED <<now, mainVars, uiVars>>

ApplyMinorEdit ==
    /\ ops < MaxHookOps
    /\ \E blockId \in HookBlockIds, newContent \in HookTexts :
          state' = ApplyMinorEditUpdate(state, blockId, newContent, now)
    /\ ops' = ops + 1
    /\ undone' = Null
    /\ UNCHANGED <<now, created, mainVars, uiVars>>

ApplyContentEdit ==
    /\ ops < MaxHookOps
    /\ \E blockId \in HookBlockIds, startOffset \in HookOffsets,
          endOffset \in HookOffsets, newText \in HookTexts :
          state' = ApplyContentEditUpdate(state, blockId, startOffset, endOffset,
                                          newText, now)
    /\ ops' = ops + 1
    /\ undone' = Null
    /\ UNCHANGED <<now, created, mainVars, uiVars>>

Undo ==
    /\ ops < MaxHookOps
    /\ state' = UndoUpdate(state)
    /\ ops' = ops + 1
    /\ undone' = IF state.currentVersionIndex > 0
                 THEN [from |-> state, redone |-> FALSE]
                 ELSE Null
    /\ UNCHANGED <<now, created, mainVars, uiVars>>

Redo ==
    /\ state' = RedoUpdate(state)
    /\ undone' = IF undone # Null /\ ~undone.redone
                 THEN [undone EXCEPT !.redone = TRUE]
                 ELSE Null
    /\ UNCHANGED <<now, created, ops, mainVars, uiVars>>

ClearVersions ==
    /\ ops < MaxHookOps
    /\ state' = [versions |-> <<>>, currentVersionIndex |-> -1]
    /\ ops' = ops + 1
    /\ undone' = Null
    /\ UNCHANGED <<now, created, mainVars, uiVars>>

HookNext ==
    \/ Tick
    \/ CreateMajorVersion
    \/ ReplaceBlocks
    \/ AddBlocksMajor
    \/ AddBlocksMinor
    \/ ApplyMinorEdit
    \/ ApplyContentEdit
    \/ Undo
    \/ Redo
    \/ ClearVersions

HookSpec == HookInit /\ [][HookNext]_vars

----------------------------------------------------------------------------
(* useVersionHistory: properties *)

\* the seq fields of a list of versions, in list order
Seqs(vs) == [i \in 1..Len(vs) |-> vs[i].seq]

\* C1: currentVersionIndex is -1 exactly when versions is empty, and otherwise
\* 0 <= currentVersionIndex < versions.length, after any sequence of calls
C1_HookCursorInRange ==
    /\ (state.currentVersionIndex = -1) <=> (Len(state.versions) = 0)
    /\ Len(state.versions) > 0 =>
          /\ 0 <= state.currentVersionIndex
          /\ state.currentVersionIndex < Len(state.versions)

\* the history was trimmed to MAX_VERSIONS and the cursor has left the last position
C1_Witness ==
    /\ created > MAX_VERSIONS
    /\ Len(state.versions) = MAX_VERSIONS
    /\ state.currentVersionIndex = MAX_VERSIONS - 2

\* C4: a version created while the cursor c is not on the last position leaves
\* versions[0..c] as they were, followed by the new version alone; the versions
\* that were after c are gone and the cursor is on the new version
C4_BranchDiscard ==
    [][ ( /\ created' = created + 1
          /\ Len(state.versions) > 0
          /\ state.currentVersionIndex < Len(state.versions) - 1 )
        => LET c == state.currentVersionIndex
           IN  /\ Len(state'.versions) = c + 2
               /\ SubSeq(state'.versions, 1, c + 1) = SubSeq(state.versions, 1, c + 1)
               /\ state'.versions[c + 2].seq = created + 1
               /\ state'.currentVersionIndex = c + 1
               /\ \A i \in (c + 2)..Len(state.versions) :
                     \A j \in 1..Len(state'.versions) :
                        state'.versions[j].seq # state.versions[i].seq
      ]_vars

\* [v1, v2, v3] with the cursor on v2 has become [v1, v2, v4] with the cursor on v4
C4_Witness ==
    /\ Seqs(state.versions) = <<1, 2, 4>>
    /\ state.currentVersionIndex = 2

\* C6: versions never holds more than MAX_VERSIONS entries; after more than
\* MAX_VERSIONS consecutive createMajorVersion calls it holds the MAX_VERSIONS most
\* recently created versions in creation order, the cursor on the newest
C6_Retention ==
    /\ Len(state.versions) <= MAX_VERSIONS
    /\ (ops = 0 /\ created > MAX_VERSIONS) =>
          /\ Len(state.versions) = MAX_VERSIONS
          /\ \A i \in 1..MAX_VERSIONS :
                state.versions[i].seq = created - MAX_VERSIONS + i
          /\ state.currentVersionIndex = MAX_VERSIONS - 1

\* more than MAX_VERSIONS versions were created by createMajorVersion alone
C6_Witness ==
    /\ ops = 0
    /\ created > MAX_VERSIONS
    /\ state.versions[1].seq = created - MAX_VERSIONS + 1

\* C20: from a state with 0 < currentVersionIndex, undo followed by redo gives back
\* the currentVersionIndex and the currentBlocks it started from, and versions is
\* as it was.
C20_UndoRedoRoundTrip ==
    (undone # Null /\ undone.redone) =>
       /\ state.currentVersionIndex = undone.from.currentVersionIndex
       /\ CurrentBlocks(state) = CurrentBlocks(undone.from)
       /\ state.versions = undone.from.versions

\* undo then redo have run from a cursor that was neither on the first nor on the
\* last version
C20_Witness ==
    /\ undone # Null
    /\ undone.redone
    /\ undone.from.currentVersionIndex > 0
    /\ undone.from.currentVersionIndex < Len(undone.from.versions) - 1

\* C21: undo sets the cursor to max(cursor - 1, 0) and is a no-op at position 0 or on
\* an empty history; redo sets it to min(cursor + 1, versions.length - 1) and is a
\* no-op at the last position or on an empty history; neither changes versions.
\* This holds of undo and redo called in any state the hook reaches.
C21_UndoRedoStep ==
    [](LET afterUndo == UndoUpdate(state)
           afterRedo == RedoUpdate(state)
           cursor    == state.currentVersionIndex
           last      == Len(state.versions) - 1
       IN  /\ afterUndo.versions = state.versions
           /\ afterRedo.versions = state.versions
           /\ (Len(state.versions) = 0 \/ cursor = 0) => afterUndo = state
           /\ (Len(state.versions) = 0 \/ cursor = last) => afterRedo = state
           /\ Len(state.versions) > 0 =>
                 /\ afterUndo.currentVersionIndex = Max(cursor - 1, 0)
                 /\ afterRedo.currentVersionIndex = Min(cursor + 1, last))

\* undo has run from a position above 0 and the cursor is now on the first of
\* several versions, where a further undo is a no-op
C21_Witness ==
    /\ undone # Null
    /\ ~undone.redone
    /\ undone.from.versions = state.versions
    /\ undone.from.currentVersionIndex = 1
    /\ state.currentVersionIndex = 0
    /\ Len(state.versions) > 2

\* version is as before except for its timestamp and the content of the blocks that
\* have id blockId, which is changed(old content)
EditedVersion(version, before, blockId, changed(_)) ==
    [version EXCEPT !.timestamp = before.timestamp]
       = [before EXCEPT !.blocks =
             [j \in 1..Len(before.blocks) |->
                 IF before.blocks[j].id = blockId
                 THEN [before.blocks[j] EXCEPT !.content = changed(@)]
                 ELSE before.blocks[j]]]

\* after is st with only its current snapshot edited
EditsCurrentOnly(after, st, blockId, changed(_)) ==
    LET i == st.currentVersionIndex + 1
    IN  IF i < 1 \/ i > Len(st.versions) THEN after = st
        ELSE /\ after = [st EXCEPT !.versions[i] = after.versions[i]]
             /\ EditedVersion(after.versions[i], st.versions[i], blockId, changed)

\* C22: applyMinorEdit and applyContentEdit leave currentVersionIndex, the number of
\* versions and every snapshot other than the current one as they are, and in the
\* current snapshot only the block with id blockId gets new content: newContent,
\* respectively content[0:startOffset] + newText + content[endOffset:]. This holds
\* of an edit called in any state in which the hook takes a further call.
C22_EditTouchesCurrentOnly ==
    [](ops < MaxHookOps =>
       /\ \A blockId \in HookBlockIds, newContent \in HookTexts :
             LET replaced(content) == newContent
             IN  EditsCurrentOnly(ApplyMinorEditUpdate(state, blockId, newContent, now),
                                  state, blockId, replaced)
       /\ \A blockId \in HookBlockIds, startOffset \in HookOffsets,
             endOffset \in HookOffsets, newText \in HookTexts :
             LET spliced(content) ==
                     SubSeq(content, 1, Min(startOffset, Len(content))) \o newText
                        \o SubSeq(content, Min(endOffset, Len(content)) + 1,
                                  Len(content))
             IN  EditsCurrentOnly(ApplyContentEditUpdate(state, blockId, startOffset,
                                                         endOffset, newText, now),
                                  state, blockId, spliced))

\* version holds a block with this id and content
HoldsBlock(version, blockId, content) ==
    \E j \in 1..Len(version.blocks) :
       version.blocks[j].id = blockId /\ version.blocks[j].content = content

\* applyMinorEdit has replaced the content of block b1 in the current snapshot while
\* an older snapshot holds a block b1 with the content it was created with
C22_Witness ==
    /\ state.currentVersionIndex >= 1
    /\ HoldsBlock(state.versions[state.currentVersionIndex + 1], "b1", <<"x">>)
    /\ \E i \in 1..state.currentVersionIndex :
          HoldsBlock(state.versions[i], "b1", <<"a", "b">>)

\* C23: applyMinorEdit and applyContentEdit called with a blockId that matches no
\* block of the current snapshot return the state unchanged: versions, with the
\* current snapshot's blocks and timestamp, and currentVersionIndex.
C23_UnknownBlockNoOp ==
    \A blockId \in HookBlockIds :
       ( /\ state.currentVersionIndex >= 0
         /\ Len(state.versions) > 0
         /\ \A j \in 1..Len(CurrentBlocks(state)) :
               CurrentBlocks(state)[j].id # blockId )
       => /\ \A newContent \in HookTexts :
                ApplyMinorEditUpdate(state, blockId, newContent, now) = state
          /\ \A startOffset \in HookOffsets, endOffset \in HookOffsets,
                newText \in HookTexts :
                ApplyContentEditUpdate(state, blockId, startOffset, endOffset,
                                       newText, now) = state

----------------------------------------------------------------------------
(* MainContent: bounds and inputs *)

\* handleSend calls that pass the guards in one run
MaxSends == 13
\* events outside the plain editing loop (navigation, failures, overlapping
\* submissions, chat answers, appends to a non-empty document) in one run
MaxMainOps == 2
\* a run with such an event holds at most this many handleSend calls
MaxWideSends == 3

\* what the user types
UserInputs == { <<"c">> }
\* what /api/docrender answers in editedText
EditTexts == { <<"a", "a">>, <<" ">> }
\* what /api/chat streams back for a generation
GenTexts == { <<"a">>, <<"a", "\n", "\n", "a">>, <<"\n">> }

----------------------------------------------------------------------------
(* MainContent: getBlocksHash *)

\* String.prototype.charCodeAt for the characters in use
CharCode(ch) ==
    CASE ch = "a"  -> 97
      [] ch = "b"  -> 98
      [] ch = "c"  -> 99
      [] ch = " "  -> 32
      [] ch = "\n" -> 10
      [] ch = "|"  -> 124
      [] ch = "*"  -> 42
      [] ch = "_"  -> 95

\* blocks.map(b => b.content).join('|||')
RECURSIVE JoinContents(_)
JoinContents(blocks) ==
    IF Len(blocks) = 0 THEN <<>>
    ELSE IF Len(blocks) = 1 THEN blocks[1].content
    ELSE blocks[1].content \o <<"|", "|", "|">> \o JoinContents(Tail(blocks))

\* A 32-bit integer is kept as <<high 16 bits, low 16 bits>> of its two's
\* complement pattern, so that no intermediate value leaves the integers TLC has.
\* hash = ((hash << 5) - hash) + char; hash = hash & hash
HashStep(h, code) ==
    LET lo == h[2] * 31 + code
        hi == h[1] * 31 + (lo \div 65536)
    IN  <<hi % 65536, lo % 65536>>

\* the for loop of getBlocksHash over content[i..]
RECURSIVE HashFrom(_, _, _)
HashFrom(content, i, h) ==
    IF i > Len(content) THEN h
    ELSE HashFrom(content, i + 1, HashStep(h, CharCode(content[i])))

\* Math.abs of the 32-bit integer h, as a 32-bit pattern
Abs32(h) ==
    IF h[1] < 32768 THEN h
    ELSE <<(65535 - h[1] + (IF h[2] = 0 THEN 1 ELSE 0)) % 65536,
           (65536 - h[2]) % 65536>>

\* getBlocksHash; toString(36) is one-to-one on the non-negative integers, so
\* the string is stood for by the number it spells
GetBlocksHash(blocks) == Abs32(HashFrom(JoinContents(blocks), 1, <<0, 0>>))

\* the contents of a block list, the ids left out
Contents(blocks) == [i \in 1..Len(blocks) |-> blocks[i].content]

----------------------------------------------------------------------------
(* lib/storage: the document_versions table *)

MAX_VERSIONS_PER_SESSION == 10

\* the rows cleanupOldVersions may leave: the MAX_VERSIONS_PER_SESSION first rows
\* of select ... order by version_index desc, rows of equal version_index in any order
CleanupResults(rows) ==
    IF Cardinality(rows) > MAX_VERSIONS_PER_SESSION
    THEN { keep \in SUBSET rows :
             /\ Cardinality(keep) = MAX_VERSIONS_PER_SESSION
             /\ \A k \in keep : \A d \in rows \ keep :
                   k.version_index >= d.version_index }
    ELSE { rows }

\* the row insert(...).select().single() returns
NewRow(id, versionIndex, blocks, contentHash) ==
    [id |-> id, version_index |-> versionIndex, blocks |-> blocks,
     content_hash |-> contentHash]

\* checkVersionExists: select id where content_hash = contentHash limit 1
CheckNeverExists(rows, contentHash) == FALSE

CheckVersionExists(rows, contentHash) ==
    \E r \in rows : r.content_hash = contentHash

\* getDocumentVersions: the orders select ... order by version_index asc may give
RECURSIVE AscendingOrders(_)
AscendingOrders(rows) ==
    IF rows = {} THEN { <<>> }
    ELSE UNION { { <<r>> \o rest : rest \in AscendingOrders(rows \ {r}) } :
                 r \in { x \in rows : \A y \in rows : x.version_index <= y.version_index } }

----------------------------------------------------------------------------
(* MainContent: createVersion *)

MainMaxVersions == 10

\* setVersions(prev => { const updated = [...prev, newVersion]; return
\* updated.length > MAX_VERSIONS ? updated.slice(-MAX_VERSIONS) : updated })
AppendTruncatingAtCursor(prev, newVersion, cursor) ==
    Append(JsSlice(prev, 0, cursor + 1), newVersion)

AppendVersion(prev, newVersion, cursor) ==
    LET updated == Append(prev, newVersion)
    IN  IF Len(updated) > MainMaxVersions
        THEN JsSliceFrom(updated, 0 - MainMaxVersions)
        ELSE updated

\* the values of the render whose createVersion a callback closes over
RenderEnv ==
    [versionsLength     |-> Len(versions),
     isLoadingVersions  |-> isLoadingVersions,
     isDocumentLoading  |-> isDocumentLoading]

\* const newVersionIndex = versions.length, of the closure
NewVersionIndex(env) == env.versionsLength

\* the DocumentVersion built from the saved row
MainVersion(savedVersion, blocks, versionIndex, hash) ==
    [id |-> savedVersion.id, blocks |-> blocks, version_index |-> versionIndex,
     content_hash |-> hash]

\* the block lists held by a list of versions
BlocksOf(vs) == { vs[i].blocks : i \in 1..Len(vs) }

\* the document was set through handleSetDocumentBlocks to newBlocks: while no
\* held version has these blocks, they are owed a version
Owing(newBlocks, prevBlocks, vs) ==
    IF /\ newBlocks # prevBlocks
       /\ ~isLoadingVersions
       /\ ~isDocumentLoading
       /\ newBlocks \notin BlocksOf(vs)
    THEN [history EXCEPT !.unsaved = @ \cup {newBlocks}]
    ELSE history

\* an event outside the plain editing loop
Disturb ==
    /\ mops < MaxMainOps
    /\ sends <= MaxWideSends
    /\ mops' = mops + 1

\* an event of the plain editing loop
Plain == mops' = mops

\* a submission is being handled
Busy == calls # <<>>

\* a createVersion is pending or running
Versioning == timers # <<>> \/ cv.pc # "idle"

\* an initial load is running
Loading == isLoadingVersions \/ isDocumentLoading

----------------------------------------------------------------------------
(* Chat: text handling *)

IsSpace(ch) == ch \in {" ", "\n"}

\* String.prototype.trim
RECURSIVE Trim(_)
Trim(str) ==
    IF Len(str) = 0 THEN str
    ELSE IF IsSpace(str[1]) THEN Trim(Tail(str))
    ELSE IF IsSpace(str[Len(str)]) THEN Trim(SubSeq(str, 1, Len(str) - 1))
    ELSE str

\* assistantText.split("\n\n")
RECURSIVE SplitBlankLine(_, _)
SplitBlankLine(text, i) ==
    IF i >= Len(text) THEN << text >>
    ELSE IF text[i] = "\n" /\ text[i + 1] = "\n"
         THEN << SubSeq(text, 1, i - 1) >>
              \o SplitBlankLine(SubSeq(text, i + 2, Len(text)), 1)
         ELSE SplitBlankLine(text, i + 1)

\* .filter((p) => p.trim())
Paragraphs(text) ==
    SelectSeq(SplitBlankLine(text, 1), LAMBDA para : Trim(para) # <<>>)

\* paragraphs.map((p, i) => ({ id: `block-${Date.now()}-${i}`, type, content: p.trim() }))
NewBlocks(text, stamp) ==
    LET paragraphs == Paragraphs(text)
    IN  [i \in 1..Len(paragraphs) |->
            Block(<<"block", stamp, i - 1>>, Trim(paragraphs[i]))]

\* currentBlocks.findIndex(b => b.id === blockId), 1-based, 0 for -1
FindIndexOrFirst(blocks, blockId) ==
    IF \E i \in 1..Len(blocks) : blocks[i].id = blockId
    THEN CHOOSE i \in 1..Len(blocks) :
            /\ blocks[i].id = blockId
            /\ \A j \in 1..(i - 1) : blocks[j].id # blockId
    ELSE Min(1, Len(blocks))

FindIndex(blocks, blockId) ==
    IF \E i \in 1..Len(blocks) : blocks[i].id = blockId
    THEN CHOOSE i \in 1..Len(blocks) :
            /\ blocks[i].id = blockId
            /\ \A j \in 1..(i - 1) : blocks[j].id # blockId
    ELSE 0

\* the updater applyEdit hands to setDocumentBlocks
ApplyEditBlocksDroppingAfter(currentBlocks, sel, newText) ==
    LET blockIndex == FindIndex(currentBlocks, sel.blockId)
    IN  IF blockIndex = 0
        THEN currentBlocks
        ELSE LET block  == currentBlocks[blockIndex]
                 before == Substring(block.content, 0, sel.startOffset)
             IN  [currentBlocks EXCEPT
                    ![blockIndex] = [block EXCEPT !.content = before \o newText]]

ApplyEditBlocks(currentBlocks, sel, newText) ==
    LET blockIndex == FindIndex(currentBlocks, sel.blockId)
    IN  IF blockIndex = 0
        THEN currentBlocks
        ELSE LET block  == currentBlocks[blockIndex]
                 before == Substring(block.content, 0, sel.startOffset)
                 after  == SubstringFrom(block.content, sel.endOffset)
             IN  [currentBlocks EXCEPT
                    ![blockIndex] = [block EXCEPT !.content = before \o newText \o after]]

\* the SelectionData of a selection of content[s..e) in a block without markup
PlainSelection(block, s, e) ==
    [blockId |-> block.id,
     selectedText |-> Substring(block.content, s, e),
     originalMarkdown |-> Substring(block.content, s, e),
     startOffset |-> s, endOffset |-> e]

\* the selections the user makes in a block: its first character, or all of it
SelectionsIn(block) ==
    IF Len(block.content) = 0 THEN {}
    ELSE { PlainSelection(block, 0, 1), PlainSelection(block, 0, Len(block.content)) }

\* a sequence without its i-th element
RemoveAt(seq, i) == SubSeq(seq, 1, i - 1) \o SubSeq(seq, i + 1, Len(seq))

----------------------------------------------------------------------------
(* Start-up *)

\* loadVersions: getDocumentVersions has resolved (with [] on an error)
LoadVersionsDone ==
    /\ isLoadingVersions
    /\ \E savedVersions \in AscendingOrders(db) \cup { <<>> } :
          IF Len(savedVersions) > 0
          THEN LET latestVersion == savedVersions[Len(savedVersions)]
               IN  /\ versions' = savedVersions
                   /\ documentBlocks' = latestVersion.blocks
                   /\ currentVersionIndex' = Len(savedVersions) - 1
                   /\ lastBlocksHashRef' = latestVersion.content_hash
                   /\ UNCHANGED history
          ELSE /\ history' = [history EXCEPT !.persistFailed = @ \/ db # {}]
               /\ UNCHANGED <<versions, documentBlocks, currentVersionIndex,
                              lastBlocksHashRef>>
    /\ isLoadingVersions' = FALSE
    /\ UNCHANGED <<isDocumentLoading, isCreatingVersionRef, cv, timers>>
    /\ UNCHANGED <<dbVars, chatVars, blockStamps, sends, mops, hookVars, uiVars>>

\* initSession: getGeneratedDocument has resolved (with null when there is no row,
\* or on an error); if (doc && doc.blocks) setDocumentBlocks(doc.blocks); finally
InitSessionDone ==
    /\ isDocumentLoading
    /\ \E doc \in {generatedDocument, Null} :
          documentBlocks' = IF doc # Null THEN doc.blocks ELSE documentBlocks
    /\ isDocumentLoading' = FALSE
    /\ UNCHANGED <<versionVars, dbVars, chatVars, countVars, hookVars, uiVars>>

----------------------------------------------------------------------------
(* The user *)

\* onChange of the textarea
TypeInput ==
    /\ input = <<>>
    /\ \E text \in UserInputs : input' = text
    /\ IF Busy THEN Disturb ELSE Plain
    /\ UNCHANGED <<selection, loading, isProcessing, isProcessingIntent, calls>>
    /\ UNCHANGED <<docVars, versionVars, dbVars, blockStamps, sends, history, hookVars, uiVars>>

\* handleSelectionChange(data): text selected in the rendered document
SelectText ==
    /\ uiMode = "document"
    /\ \E i \in 1..Len(documentBlocks) :
          \E data \in SelectionsIn(documentBlocks[i]) :
             /\ data # selection
             /\ selection' = data
    /\ IF Busy THEN Disturb ELSE Plain
    /\ UNCHANGED <<input, loading, isProcessing, isProcessingIntent, calls>>
    /\ UNCHANGED <<docVars, versionVars, dbVars, blockStamps, sends, history, hookVars, uiVars>>

\* handleOpenDocument: openDocument()
OpenDocument ==
    /\ uiMode = "chat"
    /\ uiMode' = "document"
    /\ UNCHANGED <<hookVars, mainVars, lastEdit>>

\* closeDocument: setUIMode('chat'); setSelectionState(null)
CloseDocumentKeepingSelection(sel) == sel

CloseDocumentSelection(sel) == Null

\* onClick={closeDocument} of the document panel
CloseDocument ==
    /\ uiMode = "document"
    /\ Disturb
    /\ uiMode' = "chat"
    /\ selection' = CloseDocumentSelection(selection)
    /\ history' = [history EXCEPT !.closedSelection = @ \/ selection # Null]
    /\ UNCHANGED <<input, loading, isProcessing, isProcessingIntent, calls>>
    /\ UNCHANGED <<docVars, versionVars, dbVars, blockStamps, sends, hookVars, lastEdit>>

\* onClick={clearSelection} of the selection preview
ClearSelection ==
    /\ selection # Null
    /\ Disturb
    /\ selection' = Null
    /\ UNCHANGED <<input, loading, isProcessing, isProcessingIntent, calls>>
    /\ UNCHANGED <<docVars, versionVars, dbVars, blockStamps, sends, history, hookVars, uiVars>>

----------------------------------------------------------------------------
(* Chat: handleSend, handleAIEdit, handleDocumentCreate, handleChatOnly *)

\* handleSend up to its first await: addMessage of handleAIEdit when there is a
\* selection, addMessage(userMessage) otherwise. The user is signed in (handleAIEdit
\* asks for a login otherwise), no file is attached, and the chat session id is set,
\* so that addMessage waits for the network.
HandleSend ==
    /\ ~(loading \/ isProcessing \/ isProcessingIntent)
    /\ Trim(input) # <<>>
    /\ sends < MaxSends
    /\ mops = 0 \/ sends < MaxWideSends
    /\ IF Busy \/ Versioning \/ Loading THEN Disturb ELSE Plain
    /\ calls' = Append(calls,
                       [pc |-> IF selection # Null /\ selection.selectedText # <<>>
                               THEN "edit_add" ELSE "send_add",
                        selection |-> selection,
                        answer |-> Null,
                        env |-> RenderEnv])
    /\ sends' = sends + 1
    /\ history' = [history EXCEPT !.earlySend = @ \/ Loading]
    /\ UNCHANGED <<input, selection, loading, isProcessing, isProcessingIntent>>
    /\ UNCHANGED <<docVars, versionVars, dbVars, blockStamps, hookVars, uiVars>>

\* await addMessage(...) has resolved: setIsProcessing(true); setInput('') in
\* handleAIEdit, setInput(""); setProcessingIntent(true) in handleSend
AddMessageDone ==
    /\ \E i \in 1..Len(calls) :
          \/ /\ calls[i].pc = "edit_add"
             /\ isProcessing' = TRUE
             /\ calls' = [calls EXCEPT ![i].pc = "edit_fetch"]
             /\ UNCHANGED isProcessingIntent
          \/ /\ calls[i].pc = "send_add"
             /\ isProcessingIntent' = TRUE
             /\ calls' = [calls EXCEPT ![i].pc = "classify"]
             /\ UNCHANGED isProcessing
    /\ input' = <<>>
    /\ UNCHANGED <<selection, loading>>
    /\ UNCHANGED <<docVars, versionVars, dbVars, countVars, hookVars, uiVars>>

\* await classifyIntent(...) has resolved, or thrown (the catch calls handleChatOnly)
ClassifyDone ==
    /\ \E i \in 1..Len(calls) :
          /\ calls[i].pc = "classify"
          /\ \/ /\ Plain                                  \* DOCUMENT_CREATE
                /\ loading' = TRUE
                /\ calls' = [calls EXCEPT ![i].pc = "gen_fetch"]
             \/ /\ Disturb                                \* CHAT_ONLY, default, catch
                /\ loading' = TRUE
                /\ calls' = [calls EXCEPT ![i].pc = "chat_fetch"]
             \/ /\ Disturb                                \* DOCUMENT_EDIT, no selection
                /\ calls[i].selection = Null
                /\ loading' = loading
                /\ calls' = [calls EXCEPT ![i].pc = "end_send"]
    /\ UNCHANGED <<input, selection, isProcessing, isProcessingIntent>>
    /\ UNCHANGED <<docVars, versionVars, dbVars, blockStamps, sends, history, hookVars, uiVars>>

\* handleSetDocumentBlocks(updater) of the render the call closes over:
\* setDocumentBlocks(prev => { newBlocks = updater(prev);
\*   setTimeout(() => createVersion(newBlocks), 0); return newBlocks })
SetDocumentBlocksBy(newBlocks, env) ==
    /\ documentBlocks' = newBlocks
    /\ timers' = Append(timers, [blocks |-> newBlocks, env |-> env])

\* the message that announces a change: addMessage({ role: "system",
\* showOpenDocument: true, versionIndex: totalVersions ?? 0 }), with totalVersions
\* the versions.length of the render the call closes over
VersionMessage(env) == [versionIndex |-> env.versionsLength]

\* the history after a change to newBlocks was made and announced
Announced(newBlocks, env) ==
    [Owing(newBlocks, documentBlocks, versions) EXCEPT
        !.announced = [message |-> VersionMessage(env), blocks |-> newBlocks]]

\* what a request to /api/chat or /api/docrender ends with: a failure (a status
\* that is not OK, no body, an error field, a throw), or a text
Answers(texts) == { [ok |-> FALSE] } \cup { [ok |-> TRUE, text |-> t] : t \in texts }

\* handleDocumentCreate: the answer is not added to the document
GenRefused(answer, stamp) ==
    \/ ~answer.ok
    \/ Trim(answer.text) = <<>>
    \/ Len(NewBlocks(answer.text, stamp)) = 0

\* handleDocumentCreate after the fetch and the stream have ended
GenResponse ==
    /\ \E i \in 1..Len(calls) :
          /\ calls[i].pc = "gen_fetch"
          /\ \E answer \in Answers(GenTexts) :
                /\ calls' = [calls EXCEPT ![i].pc = "end_gen", ![i].answer = answer]
                /\ IF GenRefused(answer, blockStamps + 1)
                   THEN /\ Disturb
                        /\ UNCHANGED <<documentBlocks, timers, history, blockStamps>>
                   ELSE LET newBlocks == NewBlocks(answer.text, blockStamps + 1)
                        IN  /\ IF Len(documentBlocks) > 0 \/ Len(newBlocks) > 1
                               THEN Disturb ELSE Plain
                            /\ SetDocumentBlocksBy(documentBlocks \o newBlocks,
                                                   calls[i].env)
                            /\ history' = Announced(documentBlocks \o newBlocks,
                                                    calls[i].env)
                            /\ blockStamps' = blockStamps + 1
    /\ UNCHANGED <<input, selection, loading, isProcessing, isProcessingIntent>>
    /\ UNCHANGED <<isDocumentLoading, versions, currentVersionIndex, isLoadingVersions,
                   lastBlocksHashRef, isCreatingVersionRef, cv>>
    /\ UNCHANGED <<dbVars, sends, hookVars, uiVars>>

\* handleChatOnly after the fetch and the stream have ended, or have failed
ChatResponse ==
    /\ \E i \in 1..Len(calls) :
          /\ calls[i].pc = "chat_fetch"
          /\ calls' = [calls EXCEPT ![i].pc = "end_gen"]
    /\ UNCHANGED <<input, selection, loading, isProcessing, isProcessingIntent>>
    /\ UNCHANGED <<docVars, versionVars, dbVars, countVars, hookVars, uiVars>>

\* handleAIEdit: the answer is not applied
EditRefusedUnlessBlank(answer) == ~answer.ok

EditRefused(answer) == ~answer.ok \/ Trim(answer.text) = <<>>

\* handleAIEdit after fetch('/api/docrender') has resolved
EditResponse ==
    /\ \E i \in 1..Len(calls) :
          /\ calls[i].pc = "edit_fetch"
          /\ \E answer \in Answers(EditTexts) :
                /\ calls' = [calls EXCEPT ![i].pc = "end_edit", ![i].answer = answer]
                /\ IF EditRefused(answer)
                   THEN /\ Disturb
                        /\ UNCHANGED <<documentBlocks, timers, history, selection>>
                   ELSE /\ Plain
                        /\ SetDocumentBlocksBy(
                              ApplyEditBlocks(documentBlocks, calls[i].selection,
                                              answer.text),
                              calls[i].env)
                        /\ history' = Announced(
                              ApplyEditBlocks(documentBlocks, calls[i].selection,
                                              answer.text),
                              calls[i].env)
                        /\ selection' = Null
    /\ UNCHANGED <<input, loading, isProcessing, isProcessingIntent>>
    /\ UNCHANGED <<isDocumentLoading, versions, currentVersionIndex, isLoadingVersions,
                   lastBlocksHashRef, isCreatingVersionRef, cv>>
    /\ UNCHANGED <<dbVars, blockStamps, sends, hookVars, uiVars>>

\* the last await addMessage(...) has resolved and the finally blocks run
FinishSend ==
    /\ \E i \in 1..Len(calls) :
          /\ \/ /\ calls[i].pc = "end_edit"
                /\ isProcessing' = FALSE
                /\ UNCHANGED <<loading, isProcessingIntent>>
             \/ /\ calls[i].pc = "end_gen"
                /\ loading' = FALSE
                /\ isProcessingIntent' = FALSE
                /\ UNCHANGED isProcessing
             \/ /\ calls[i].pc = "end_send"
                /\ isProcessingIntent' = FALSE
                /\ UNCHANGED <<loading, isProcessing>>
          /\ calls' = RemoveAt(calls, i)
    /\ UNCHANGED <<input, selection>>
    /\ UNCHANGED <<docVars, versionVars, dbVars, countVars, hookVars, uiVars>>

----------------------------------------------------------------------------
(* MainContent: createVersion, run by the timers of handleSetDocumentBlocks *)

\* the three early returns of createVersion
ReturnsEarlyUnlessCreating(env, hash) ==
    \/ env.isLoadingVersions \/ env.isDocumentLoading
    \/ hash = lastBlocksHashRef

ReturnsEarly(env, hash) ==
    \/ env.isLoadingVersions \/ env.isDocumentLoading
    \/ isCreatingVersionRef
    \/ hash = lastBlocksHashRef

\* setTimeout(() => createVersion(newBlocks), 0) fires: createVersion up to its
\* first await. The loading flags and versions.length are those of the closure.
FireTimer ==
    /\ timers # <<>>
    /\ timers' = Tail(timers)
    /\ LET blocks == Head(timers).blocks
           env    == Head(timers).env
           hash   == GetBlocksHash(blocks)
       IN  IF ReturnsEarly(env, hash)
           THEN UNCHANGED <<isCreatingVersionRef, cv>>
           ELSE /\ isCreatingVersionRef' = TRUE
                /\ cv' = [pc |-> "check", blocks |-> blocks, hash |-> hash, env |-> env]
    /\ UNCHANGED <<documentBlocks, isDocumentLoading, versions, currentVersionIndex,
                   isLoadingVersions, lastBlocksHashRef>>
    /\ UNCHANGED <<dbVars, chatVars, countVars, hookVars, uiVars>>

\* await checkVersionExists(...) has resolved
CheckDone ==
    /\ cv.pc = "check"
    /\ lastBlocksHashRef' = cv.hash
    /\ \/ /\ CheckVersionExists(db, cv.hash)              \* exists: return, finally
          /\ isCreatingVersionRef' = FALSE
          /\ cv' = NoCall
          /\ Plain
          /\ history' = [history EXCEPT !.deduped = TRUE]
       \/ /\ ~CheckVersionExists(db, cv.hash)
          /\ cv' = [cv EXCEPT !.pc = "save"]
          /\ Plain
          /\ UNCHANGED <<isCreatingVersionRef, history>>
       \/ /\ CheckVersionExists(db, cv.hash)              \* the select fails: false
          /\ cv' = [cv EXCEPT !.pc = "save"]
          /\ Disturb
          /\ history' = [history EXCEPT !.persistFailed = TRUE]
          /\ UNCHANGED isCreatingVersionRef
    /\ UNCHANGED <<documentBlocks, isDocumentLoading, versions, currentVersionIndex,
                   isLoadingVersions, timers>>
    /\ UNCHANGED <<dbVars, chatVars, blockStamps, sends, hookVars, uiVars>>

\* the history after an insert of blocks that left the versions newVersions
Inserted(blocks, newVersions) ==
    [history EXCEPT !.inserted   = @ \cup {Contents(blocks)},
                    !.reinserted = @ \/ Contents(blocks) \in history.inserted,
                    !.unsaved    = @ \ BlocksOf(newVersions),
                    !.branched   = @ \/ currentVersionIndex # Len(versions) - 1]

\* await saveDocumentVersion(...) has resolved; if (savedVersion) {...}; finally
SaveDone ==
    /\ cv.pc = "save"
    /\ isCreatingVersionRef' = FALSE
    /\ cv' = NoCall
    /\ LET newVersionIndex == NewVersionIndex(cv.env)
           savedVersion    == NewRow(rowIds + 1, newVersionIndex, cv.blocks, cv.hash)
           newVersion      == MainVersion(savedVersion, cv.blocks, newVersionIndex,
                                          cv.hash)
           updated         == AppendVersion(versions, newVersion, currentVersionIndex)
       IN  \/ /\ Plain                                   \* insert and cleanup succeed
              /\ db' \in CleanupResults(db \cup {savedVersion})
              /\ rowIds' = rowIds + 1
              /\ versions' = updated
              /\ currentVersionIndex' = newVersionIndex
              /\ history' = Inserted(cv.blocks, updated)
           \/ /\ Disturb                                 \* cleanupOldVersions fails
              /\ Cardinality(db) >= MAX_VERSIONS_PER_SESSION
              /\ db' = db \cup {savedVersion}
              /\ rowIds' = rowIds + 1
              /\ versions' = updated
              /\ currentVersionIndex' = newVersionIndex
              /\ history' = [Inserted(cv.blocks, updated) EXCEPT !.persistFailed = TRUE]
           \/ /\ Disturb                                 \* the insert fails: null
              /\ history' = [history EXCEPT !.persistFailed = TRUE,
                                            !.saveFailed = TRUE]
              /\ UNCHANGED <<db, rowIds, versions, currentVersionIndex>>
    /\ UNCHANGED <<documentBlocks, isDocumentLoading, isLoadingVersions,
                   lastBlocksHashRef, timers, generatedDocument>>
    /\ UNCHANGED <<chatVars, blockStamps, sends, hookVars, uiVars>>

----------------------------------------------------------------------------
(* MainContent: moving between versions *)

\* what handleUndo, handleRedo and handleSwitchToVersion do with the version at
\* array index targetArrayIndex (0-based)
RestoreVersion(targetArrayIndex) ==
    /\ Disturb
    /\ lastBlocksHashRef' = GetBlocksHash(versions[targetArrayIndex + 1].blocks)
    /\ documentBlocks' = versions[targetArrayIndex + 1].blocks
    /\ currentVersionIndex' = targetArrayIndex
    /\ UNCHANGED <<isDocumentLoading, versions, isLoadingVersions,
                   isCreatingVersionRef, cv, timers>>
    /\ UNCHANGED <<dbVars, chatVars, blockStamps, sends, history, hookVars, uiVars>>

HandleUndo ==
    /\ currentVersionIndex > 0
    /\ currentVersionIndex - 1 < Len(versions)            \* if (prevVersion)
    /\ RestoreVersion(currentVersionIndex - 1)

HandleRedo ==
    /\ currentVersionIndex < Len(versions) - 1
    /\ RestoreVersion(currentVersionIndex + 1)

\* versions.indexOf(versions.find(v => v.version_index === versionIndex)), -1 when
\* find gives undefined
FindVersion(vs, versionIndex) ==
    IF \E i \in 1..Len(vs) : vs[i].version_index = versionIndex
    THEN (CHOOSE i \in 1..Len(vs) :
             /\ vs[i].version_index = versionIndex
             /\ \A j \in 1..(i - 1) : vs[j].version_index # versionIndex) - 1
    ELSE 0 - 1

\* the cursor and the blocks handleSwitchToVersion(versionIndex) leaves
SwitchedTo(vs, cursor, blocks, versionIndex) ==
    LET targetArrayIndex == FindVersion(vs, versionIndex)
    IN  IF targetArrayIndex = 0 - 1 \/ targetArrayIndex = cursor
        THEN [currentVersionIndex |-> cursor, documentBlocks |-> blocks]
        ELSE [currentVersionIndex |-> targetArrayIndex,
              documentBlocks |-> vs[targetArrayIndex + 1].blocks]

\* handleSwitchToVersion(versionIndex), when it does not return early
HandleSwitchToVersion ==
    \E versionIndex \in 0..Len(versions) :
       LET switched == SwitchedTo(versions, currentVersionIndex, documentBlocks,
                                  versionIndex)
       IN  /\ switched.currentVersionIndex # currentVersionIndex
           /\ RestoreVersion(switched.currentVersionIndex)

\* onClick of an entry of the version dropdown
DropdownSelect ==
    /\ \E idx \in 0..(Len(versions) - 1) :
          /\ idx # currentVersionIndex \/ documentBlocks # versions[idx + 1].blocks
          /\ documentBlocks' = versions[idx + 1].blocks
          /\ currentVersionIndex' = idx
    /\ Disturb
    /\ UNCHANGED <<isDocumentLoading, versions, isLoadingVersions, lastBlocksHashRef,
                   isCreatingVersionRef, cv, timers>>
    /\ UNCHANGED <<dbVars, chatVars, blockStamps, sends, history, hookVars, uiVars>>

----------------------------------------------------------------------------
(* MainContent and Chat, mounted for a session without stored versions *)

MainInit == MainMounted /\ HookUnused

MainNext ==
    \/ LoadVersionsDone
    \/ InitSessionDone
    \/ TypeInput
    \/ OpenDocument
    \/ CloseDocument
    \/ SelectText
    \/ ClearSelection
    \/ HandleSend
    \/ AddMessageDone
    \/ ClassifyDone
    \/ GenResponse
    \/ ChatResponse
    \/ EditResponse
    \/ FinishSend
    \/ FireTimer
    \/ CheckDone
    \/ SaveDone
    \/ HandleUndo
    \/ HandleRedo
    \/ HandleSwitchToVersion
    \/ DropdownSelect

MainSpec == MainInit /\ [][MainNext]_vars

----------------------------------------------------------------------------
(* The page is loaded again for a session that has stored rows *)

\* the document after the answer "a" and n edits that each put "aa" in the place of
\* the first character
EditedBlocks(n) == <<Block(<<"block", 1, 0>>, [j \in 1..(n + 1) |-> "a"])>>

\* the same when a second answer "a" had been added before the edits
EditedTwoBlocks(n) == EditedBlocks(n) \o NewBlocks(<<"a">>, 2)

\* the rows createVersion saved when each change was saved before the next was
\* sent: row k is the versionIndex k - 1
ChainRows(n) ==
    { NewRow(k, k - 1, EditedBlocks(k - 1), GetBlocksHash(EditedBlocks(k - 1))) :
         k \in 1..n }

\* the rows when the first two submissions, both generations, were sent together,
\* so that both createVersion calls read versions.length = 0, and edits followed
OverlapRows(n) ==
    { NewRow(1, 0, EditedBlocks(0), GetBlocksHash(EditedBlocks(0))) }
       \cup { NewRow(k, IF k = 2 THEN 0 ELSE k - 1, EditedTwoBlocks(k - 2),
                     GetBlocksHash(EditedTwoBlocks(k - 2))) : k \in 2..n }

\* what a former page load left: the rows of document_versions and the row of
\* generated_documents, which the autosave writes from the document shown (after
\* handleUndo, the blocks of an older version)
StoredSessions ==
    { [rows |-> ChainRows(2), document |-> [blocks |-> EditedBlocks(1)]],
      [rows |-> ChainRows(2), document |-> [blocks |-> EditedBlocks(0)]],
      [rows |-> OverlapRows(MainMaxVersions),
       document |-> [blocks |-> EditedTwoBlocks(MainMaxVersions - 2)]] }

\* the page is loaded again, which counts as an event outside the editing loop
ReloadInit ==
    /\ Mounted
    /\ mops = 1
    /\ \E session \in StoredSessions :
          /\ db = session.rows
          /\ rowIds = Cardinality(session.rows)
          /\ generatedDocument = session.document
          /\ blockStamps = 2
    /\ HookUnused

\* the start-up and the editing loop
ReloadNext ==
    \/ LoadVersionsDone
    \/ InitSessionDone
    \/ TypeInput
    \/ OpenDocument
    \/ SelectText
    \/ HandleSend
    \/ AddMessageDone
    \/ ClassifyDone
    \/ GenResponse
    \/ EditResponse
    \/ FinishSend
    \/ FireTimer
    \/ CheckDone
    \/ SaveDone

ReloadSpec == ReloadInit /\ [][ReloadNext]_vars

----------------------------------------------------------------------------
(* DocRender: the offsets of a selection (handleMouseUp) *)

\* the character U+0060, which a TLA+ string cannot hold, is written as an apostrophe
Backtick == "'"

\* String.prototype.indexOf(sub, from): 0-based, -1 when absent
IndexOf(str, sub, from) ==
    LET hits == { i \in from..(Len(str) - Len(sub)) :
                     SubSeq(str, i + 1, i + Len(sub)) = sub }
    IN  IF hits = {} THEN 0 - 1
        ELSE CHOOSE i \in hits : \A j \in hits : i <= j

\* .replace(/\s+/g, ' ')
RECURSIVE CollapseSpaces(_)
CollapseSpaces(str) ==
    IF Len(str) = 0 THEN str
    ELSE IF IsSpace(str[1])
         THEN IF Len(str) > 1 /\ IsSpace(str[2])
              THEN CollapseSpaces(Tail(str))
              ELSE <<" ">> \o CollapseSpaces(Tail(str))
         ELSE <<str[1]>> \o CollapseSpaces(Tail(str))

\* selectedText.split(' ')[0]
FirstWord(str) ==
    LET sp == IndexOf(str, <<" ">>, 0)
    IN  IF sp = 0 - 1 THEN str ELSE SubSeq(str, 1, sp)

\* the while loop of createPositionMap from position i on; map holds 0-based
\* positions of markdown
RECURSIVE PositionMapFrom(_, _, _, _)
PositionMapFrom(markdown, i, stripped, map) ==
    IF i >= Len(markdown) THEN [stripped |-> stripped, map |-> map]
    ELSE IF Substring(markdown, i, i + 2) = <<"*", "*">>
         THEN PositionMapFrom(markdown, i + 2, stripped, map)
    ELSE IF Substring(markdown, i, i + 2) = <<"_", "_">>
         THEN PositionMapFrom(markdown, i + 2, stripped, map)
    ELSE IF /\ markdown[i + 1] \in {"*", "_"}
            /\ i + 1 < Len(markdown)
            /\ markdown[i + 2] # " "
            /\ LET closeIdx == IndexOf(markdown, <<markdown[i + 1]>>, i + 1)
               IN  /\ closeIdx # 0 - 1
                   /\ closeIdx < IndexOf(markdown, <<" ">>, i + 1)
         THEN PositionMapFrom(markdown, i + 1, stripped, map)
    ELSE IF markdown[i + 1] = Backtick
         THEN PositionMapFrom(markdown, i + 1, stripped, map)
    ELSE PositionMapFrom(markdown, i + 1, Append(stripped, markdown[i + 1]),
                         Append(map, i))

CreatePositionMap(markdown) == PositionMapFrom(markdown, 0, <<>>, <<>>)

\* stripped.indexOf(selectedText), then the match on whitespace-normalised text
StrippedStartOffset(stripped, selectedText) ==
    LET exact == IndexOf(stripped, selectedText, 0)
    IN  IF exact # 0 - 1 THEN exact
        ELSE IndexOf(CollapseSpaces(stripped), CollapseSpaces(selectedText), 0)

\* the mapped path is taken
Mapped(content, selectedText) ==
    LET pm == CreatePositionMap(content)
    IN  StrippedStartOffset(pm.stripped, selectedText) # 0 - 1 /\ Len(pm.map) > 0

\* startOffset and endOffset as handleMouseUp computes them for a block's content
\* and the normalised selected text
ComputeOffsets(content, selectedText) ==
    LET pm == CreatePositionMap(content)
        strippedStartOffset == StrippedStartOffset(pm.stripped, selectedText)
    IN  IF Mapped(content, selectedText)
        THEN LET strippedEndOffset ==
                    Min(strippedStartOffset + Len(selectedText), Len(pm.map))
             IN  [startOffset |-> IF strippedStartOffset < Len(pm.map)
                                  THEN pm.map[strippedStartOffset + 1] ELSE 0,
                  endOffset   |-> IF strippedEndOffset < Len(pm.map)
                                  THEN pm.map[strippedEndOffset + 1]
                                  ELSE Len(content)]
        ELSE LET direct == IndexOf(content, selectedText, 0)
                 word   == IndexOf(content, FirstWord(selectedText), 0)
                 start  == IF direct # 0 - 1 THEN direct
                           ELSE IF word # 0 - 1 THEN word ELSE 0
             IN  [startOffset |-> start, endOffset |-> start + Len(selectedText)]

\* (content.match(/```/g) || []).length, from position i (0-based) on
RECURSIVE TickCountFrom(_, _)
TickCountFrom(content, i) ==
    IF i + 3 > Len(content) THEN 0
    ELSE IF Substring(content, i, i + 3) = <<Backtick, Backtick, Backtick>>
         THEN 1 + TickCountFrom(content, i + 3)
         ELSE TickCountFrom(content, i + 1)

\* current.map(b => b.content).join('\n\n')
RECURSIVE JoinBlankLine(_)
JoinBlankLine(current) ==
    IF Len(current) = 0 THEN <<>>
    ELSE IF Len(current) = 1 THEN current[1].content
    ELSE current[1].content \o <<"\n", "\n">> \o JoinBlankLine(Tail(current))

\* pushCurrent
PushCurrent(groups, current) ==
    IF Len(current) = 0 THEN groups
    ELSE Append(groups, [id |-> current[1].id,
                         originalIds |-> [k \in 1..Len(current) |-> current[k].id],
                         content |-> JoinBlankLine(current)])

\* the for loop of renderGroups from block i on, and the last pushCurrent
RECURSIVE RenderGroupsFrom(_, _, _, _, _)
RenderGroupsFrom(blocks, i, groups, current, fenceOpen) ==
    IF i > Len(blocks) THEN PushCurrent(groups, current)
    ELSE LET pushed == Append(current, blocks[i])
             open   == IF TickCountFrom(blocks[i].content, 0) % 2 = 1
                       THEN ~fenceOpen ELSE fenceOpen
         IN  IF open
             THEN RenderGroupsFrom(blocks, i + 1, groups, pushed, open)
             ELSE RenderGroupsFrom(blocks, i + 1, PushCurrent(groups, pushed), <<>>, open)

RenderGroups(blocks) == RenderGroupsFrom(blocks, 1, <<>>, <<>>, FALSE)

\* data-block-id of the element that shows block i: the id of its group
BlockElementId(blocks, i) ==
    LET groups == RenderGroups(blocks)
        g == CHOOSE g \in 1..Len(groups) :
                \E k \in 1..Len(groups[g].originalIds) :
                   groups[g].originalIds[k] = blocks[i].id
    IN  groups[g].id

\* what handleMouseUp passes to onSelectionChange when sel.toString() is text and
\* the selection starts in the element with data-block-id blockId
HandleMouseUp(blocks, blockId, text) ==
    LET selectedText == CollapseSpaces(Trim(text))
        blockIndex   == FindIndex(blocks, blockId)
    IN  IF Len(selectedText) = 0 \/ blockIndex = 0 THEN Null
        ELSE LET content == blocks[blockIndex].content
                 offsets == ComputeOffsets(content, selectedText)
             IN  [blockId |-> blockId,
                  selectedText |-> selectedText,
                  originalMarkdown |->
                      Substring(content, offsets.startOffset, offsets.endOffset),
                  startOffset |-> offsets.startOffset,
                  endOffset |-> offsets.endOffset]

----------------------------------------------------------------------------
(* The document view: handleMouseUp and applyEdit applied to documents with
   markup. The blocks come from generation answers; the version side of a
   change of documentBlocks is MainSpec's and is left out here. *)

\* applyEdit calls in one run
MaxEdits == 1

\* generation answers with bold, em and code spans
BoldAnswer == <<"T", "h", "e", " ", "*", "*", "q", "u", "i", "c", "k", "*", "*", " ", "f", "o", "x">>
EmAnswer == <<"*", "a", "*", " ", "b">>
EmInWordAnswer == <<"*", "a", "*", "a", " ", "a", "a">>
CodeAnswer == <<Backtick, "a", Backtick, " ", "b">>
SecondAnswer == <<"a", " ", "b", " ", "c">>
\* a generation answer with a fenced code block that holds a blank line
FencedAnswer ==
    <<Backtick, Backtick, Backtick, "\n", "a", "\n", "\n",
      "b", "\n", Backtick, Backtick, Backtick>>
\* a generation answer with two spaces between its words
SpacedAnswer == <<"x", " ", " ", "a", " ", " ", "b">>

DocTexts ==
    { BoldAnswer, EmAnswer, EmInWordAnswer, CodeAnswer, FencedAnswer, SpacedAnswer,
      <<"a">> }

\* the documents shown: the blocks of one answer, or of the answer "a" followed by
\* those of a second answer
DocDocuments ==
    { NewBlocks(text, 1) : text \in DocTexts }
        \cup { NewBlocks(<<"a">>, 1) \o NewBlocks(SecondAnswer, 2) }

\* the text applyEdit is called with
Replacements == { <<"s", "l", "o", "w">> }

\* the text ReactMarkdown shows for a block whose markers are balanced bold, em and
\* code spans: the content without its marker characters
RenderedText(content) == SelectSeq(content, LAMBDA ch : ch \notin {"*", Backtick})

\* a word starts at position a of text, a word ends at position b
WordStart(text, a) == ~IsSpace(text[a]) /\ (a = 1 \/ IsSpace(text[a - 1]))
WordEnd(text, b) == ~IsSpace(text[b]) /\ (b = Len(text) \/ IsSpace(text[b + 1]))

\* sel.toString() of a selection inside the element of block i, from the start of a
\* word to the end of a word
TextsWithin(blocks, i) ==
    LET shown == RenderedText(blocks[i].content)
    IN  { SubSeq(shown, a, b) :
             <<a, b>> \in { p \in (1..Len(shown)) \X (1..Len(shown)) :
                              /\ p[1] <= p[2]
                              /\ WordStart(shown, p[1])
                              /\ WordEnd(shown, p[2]) } }

\* sel.toString() of a selection from the start of a word of block i to the end of a
\* word of the next block
TextsAcross(blocks, i) ==
    IF i >= Len(blocks) THEN {}
    ELSE LET shown == RenderedText(blocks[i].content)
             next  == RenderedText(blocks[i + 1].content)
         IN  { SubSeq(shown, a, Len(shown)) \o <<"\n", "\n">> \o SubSeq(next, 1, b) :
                  <<a, b>> \in { p \in (1..Len(shown)) \X (1..Len(next)) :
                                   WordStart(shown, p[1]) /\ WordEnd(next, p[2]) } }

\* DocRender.handleMouseUp, then handleSelectionChange: setSelection(data)
MouseUp ==
    /\ uiMode = "document"
    /\ \E i \in 1..Len(documentBlocks) :
          \E text \in TextsWithin(documentBlocks, i) \cup TextsAcross(documentBlocks, i) :
             selection' = HandleMouseUp(documentBlocks,
                                        BlockElementId(documentBlocks, i), text)
    /\ selection' # selection
    /\ UNCHANGED <<input, loading, isProcessing, isProcessingIntent, calls>>
    /\ UNCHANGED <<docVars, versionVars, dbVars, countVars, hookVars, uiVars>>

\* applyEdit(newText, selectionToUse) with stored the selection of UIStateProvider:
\* the block list and the stored selection it leaves
ApplyEdit(currentBlocks, stored, newText, selectionToUse) ==
    IF selectionToUse = Null
    THEN [blocks |-> currentBlocks, selection |-> stored]
    ELSE [blocks |-> ApplyEditBlocks(currentBlocks, selectionToUse, newText),
          selection |-> Null]

\* a call of applyEdit, with the stored selection or with null
ApplyEditCall ==
    /\ lastEdit.count < MaxEdits
    /\ \E newText \in Replacements, selectionToUse \in {Null, selection} :
          LET done == ApplyEdit(documentBlocks, selection, newText, selectionToUse)
          IN  /\ documentBlocks' = done.blocks
              /\ selection' = done.selection
              /\ lastEdit' = [count |-> lastEdit.count + 1,
                              newText |-> newText,
                              selectionToUse |-> selectionToUse,
                              before |-> documentBlocks,
                              stored |-> selection,
                              after |-> done.blocks,
                              selectionAfter |-> done.selection]
    /\ UNCHANGED <<input, loading, isProcessing, isProcessingIntent, calls>>
    /\ UNCHANGED <<isDocumentLoading, versionVars, dbVars, countVars, hookVars, uiMode>>

\* a is b without some of its last blocks
IsPrefix(a, b) == Len(a) < Len(b) /\ a = SubSeq(b, 1, Len(a))

\* handleSwitchToVersion: setDocumentBlocks(version.blocks), to the version before or
\* after the answer that added the last blocks
ShowVersion ==
    /\ \E blocks \in DocDocuments :
          /\ IsPrefix(blocks, documentBlocks) \/ IsPrefix(documentBlocks, blocks)
          /\ documentBlocks' = blocks
    /\ Disturb
    /\ UNCHANGED <<isDocumentLoading, versionVars, dbVars, chatVars, blockStamps, sends,
                   history, hookVars, uiVars>>

\* the components are mounted, loading has ended, a document is there
DocInit ==
    /\ documentBlocks \in DocDocuments
    /\ isDocumentLoading = FALSE
    /\ versions = <<>>
    /\ currentVersionIndex = -1
    /\ isLoadingVersions = FALSE
    /\ lastBlocksHashRef = <<>>
    /\ isCreatingVersionRef = FALSE
    /\ cv = NoCall
    /\ timers = <<>>
    /\ db = {}
    /\ rowIds = 0
    /\ generatedDocument = Null
    /\ blockStamps = 2
    /\ input = <<>>
    /\ selection = Null
    /\ loading = FALSE
    /\ isProcessing = FALSE
    /\ isProcessingIntent = FALSE
    /\ calls = <<>>
    /\ sends = 0
    /\ mops = 0
    /\ history = NoHistory
    /\ uiMode = "chat"
    /\ lastEdit = NoEdit
    /\ HookUnused

DocNext ==
    \/ OpenDocument
    \/ CloseDocument
    \/ MouseUp
    \/ ClearSelection
    \/ ApplyEditCall
    \/ ShowVersion

DocSpec == DocInit /\ [][DocNext]_vars

----------------------------------------------------------------------------
(* The document view: properties *)

\* the nonempty contiguous parts of text that neither start nor end with white space
Parts(text) ==
    { SubSeq(text, a, b) :
         <<a, b>> \in { p \in (1..Len(text)) \X (1..Len(text)) :
                          /\ p[1] <= p[2]
                          /\ ~IsSpace(text[p[1]])
                          /\ ~IsSpace(text[p[2]]) } }

\* C11: for every block of the document and every non-empty selection of its
\* rendered text, the offsets handleMouseUp computes satisfy
\* 0 <= startOffset <= endOffset <= content.length.
C11_OffsetsInRange ==
    \A i \in 1..Len(documentBlocks) :
       \A text \in Parts(RenderedText(documentBlocks[i].content)) :
          LET data == HandleMouseUp(documentBlocks, documentBlocks[i].id, text)
          IN  data # Null =>
                 /\ 0 <= data.startOffset
                 /\ data.startOffset <= data.endOffset
                 /\ data.endOffset <= Len(documentBlocks[i].content)

\* the bold spans of content: <<s, e>> with content[s - 2 .. s) and content[e .. e + 2)
\* both "**" and content[s .. e) a text without markers or white space at its ends
BoldSpans(content) ==
    { p \in (2..Len(content)) \X (2..Len(content)) :
         /\ p[1] < p[2]
         /\ p[2] + 2 <= Len(content)
         /\ SubSeq(content, p[1] - 1, p[1]) = <<"*", "*">>
         /\ SubSeq(content, p[2] + 1, p[2] + 2) = <<"*", "*">>
         /\ \A k \in (p[1] + 1)..p[2] : content[k] \notin {"*", Backtick}
         /\ ~IsSpace(content[p[1] + 1])
         /\ ~IsSpace(content[p[2]]) }

\* C12: when the selection is the text X of a bold span **X** of a block, startOffset
\* is the index of the first character of X, endOffset the index just after its last
\* character, and applyEdit with Y puts Y between the two marker pairs.
C12_BoldSpanKeepsMarkers ==
    \A i \in 1..Len(documentBlocks) :
       LET content == documentBlocks[i].content
       IN  \A p \in BoldSpans(content) :
              LET data == HandleMouseUp(documentBlocks, documentBlocks[i].id,
                                        SubSeq(content, p[1] + 1, p[2]))
              IN  /\ data # Null
                  /\ data.startOffset = p[1]
                  /\ data.endOffset = p[2]
                  /\ \A newText \in Replacements :
                        ApplyEditBlocks(documentBlocks, data, newText)[i].content
                           = SubSeq(content, 1, p[1]) \o newText
                                \o SubSeq(content, p[2] + 1, Len(content))

\* C13: for every block with balanced bold, em or code markers and every contiguous
\* part R of its text without the markers, the content between the computed offsets,
\* without its markers, is R.
C13_OffsetsCoverSelection ==
    documentBlocks \in DocDocuments =>
       \A i \in 1..Len(documentBlocks) :
          LET content == documentBlocks[i].content
          IN  \A R \in Parts(RenderedText(content)) :
                 LET offsets == ComputeOffsets(content, R)
                 IN  RenderedText(Substring(content, offsets.startOffset,
                                            offsets.endOffset)) = R

\* C15: leaving the document view clears the selection: while uiMode is 'chat' the
\* stored selection is null.
C15_ChatModeNoSelection == uiMode = "chat" => selection = Null

\* closeDocument has run while a selection was stored
C15_Witness ==
    /\ history.closedSelection
    /\ uiMode = "chat"
    /\ selection = Null

\* the last applyEdit call was given a selection, and no block of the list it found
\* had the selection's blockId
BlockAbsent ==
    /\ lastEdit.count > 0
    /\ lastEdit.selectionToUse # Null
    /\ \A j \in 1..Len(lastEdit.before) :
          lastEdit.before[j].id # lastEdit.selectionToUse.blockId

\* the last applyEdit call was given null
NoSelectionGiven == lastEdit.count > 0 /\ lastEdit.selectionToUse = Null

\* C16: applyEdit clears the stored selection only if it spliced a block: called with
\* null, or with a selection whose block is not in the list, it leaves the stored
\* selection as it was.
C16_NoOpKeepsSelection ==
    NoSelectionGiven \/ BlockAbsent => lastEdit.selectionAfter = lastEdit.stored

\* C17: applyEdit leaves the block list as it was when it is called with null or with
\* a selection whose block is not in the list.
C17_NoOpKeepsBlocks ==
    NoSelectionGiven \/ BlockAbsent => lastEdit.after = lastEdit.before

\* applyEdit was called with a selection made in a block that the list no longer holds
C17_Witness ==
    /\ BlockAbsent
    /\ Len(lastEdit.before) > 0
    /\ documentBlocks = lastEdit.before

\* the last applyEdit call was given a selection whose block is block i of the list
\* and whose offsets lie inside that block's content
SpliceAt(i) ==
    /\ lastEdit.count > 0
    /\ lastEdit.selectionToUse # Null
    /\ i \in 1..Len(lastEdit.before)
    /\ lastEdit.before[i].id = lastEdit.selectionToUse.blockId
    /\ \A j \in 1..(i - 1) : lastEdit.before[j].id # lastEdit.selectionToUse.blockId
    /\ 0 <= lastEdit.selectionToUse.startOffset
    /\ lastEdit.selectionToUse.startOffset <= lastEdit.selectionToUse.endOffset
    /\ lastEdit.selectionToUse.endOffset <= Len(lastEdit.before[i].content)

\* C18: for a selection whose block is in the list and whose offsets are in range,
\* applyEdit changes that block's content to content[0:startOffset] + newText +
\* content[endOffset:] and nothing else: number, order, ids and types of the blocks
\* and the content of every other block stay.
C18_SpliceChangesOneBlock ==
    lastEdit.count > 0 =>
    \A i \in 1..Len(lastEdit.before) :
       SpliceAt(i) =>
          LET sel     == lastEdit.selectionToUse
              content == lastEdit.before[i].content
          IN  /\ Len(lastEdit.after) = Len(lastEdit.before)
              /\ \A j \in 1..Len(lastEdit.before) :
                    /\ lastEdit.after[j].id = lastEdit.before[j].id
                    /\ lastEdit.after[j].type = lastEdit.before[j].type
                    /\ j # i => lastEdit.after[j].content = lastEdit.before[j].content
              /\ lastEdit.after[i].content
                    = SubSeq(content, 1, sel.startOffset) \o lastEdit.newText
                         \o SubSeq(content, sel.endOffset + 1, Len(content))

\* applyEdit has spliced inside the second of two blocks, with text left on both
\* sides of the replaced range
C18_Witness ==
    /\ SpliceAt(2)
    /\ lastEdit.selectionToUse.startOffset > 0
    /\ lastEdit.selectionToUse.endOffset < Len(lastEdit.before[2].content)
    /\ lastEdit.after # lastEdit.before

----------------------------------------------------------------------------
(* MainContent and Chat: properties *)

\* the version_index fields of a list of versions, in list order
Indexes(vs) == [i \in 1..Len(vs) |-> vs[i].version_index]

\* nothing is pending: no submission, no timer, no createVersion, no initial load
Quiescent == ~Busy /\ ~Versioning /\ ~Loading

\* C2: in MainContent, currentVersionIndex is -1 exactly when versions is empty and
\* otherwise 0 <= currentVersionIndex < versions.length, here after createVersion
\* calls that all succeed, made one after another
C2_MainCursorInRange ==
    mops = 0 =>
       /\ (currentVersionIndex = -1) <=> (Len(versions) = 0)
       /\ Len(versions) > 0 =>
             /\ 0 <= currentVersionIndex
             /\ currentVersionIndex < Len(versions)

\* C3: the version_index values of the versions held are strictly increasing in
\* list order, here after createVersion calls that all succeed, made one after
\* another, as many as take the list past MAX_VERSIONS
C3_IndexIncreasing ==
    mops = 0 =>
       \A i \in 1..Len(versions) : \A j \in (i + 1)..Len(versions) :
          versions[i].version_index < versions[j].version_index

\* the new version a createVersion call that is being saved would add
SavingVersion(v) ==
    /\ v.blocks = cv.blocks
    /\ v.content_hash = cv.hash
    /\ v.version_index = NewVersionIndex(cv.env)

\* a step in which saveDocumentVersion has returned a row
SaveSucceeds == cv.pc = "save" /\ cv' = NoCall /\ rowIds' = rowIds + 1

\* a step in which saveDocumentVersion has returned null
SaveFails == cv.pc = "save" /\ cv' = NoCall /\ rowIds' = rowIds

\* C5, as the code has it: when createVersion succeeds while the cursor is not on
\* the last position, the new version is put at the end of versions, after every
\* version held; the versions after the cursor are kept, and only the cap of
\* MAX_VERSIONS removes versions, from the front
C5_AppendKeepsFuture ==
    [][ (SaveSucceeds /\ currentVersionIndex # Len(versions) - 1)
        => LET n       == Len(versions)
               m       == Len(versions')
               evicted == n + 1 - m
           IN  /\ m = Min(n + 1, MainMaxVersions)
               /\ \A i \in 1..(m - 1) : versions'[i] = versions[i + evicted]
               /\ SavingVersion(versions'[m])
      ]_vars

\* createVersion has succeeded after the cursor was moved back, the one event
\* outside the plain editing loop, and three versions are held
C5_Witness ==
    /\ history.branched
    /\ ~history.persistFailed
    /\ mops = 1
    /\ Indexes(versions) = <<0, 1, 2>>
    /\ cv.pc = "idle"

\* versions holds version_index 0, 1, 2, ... in order, and the createVersion call
\* being saved has the current versions.length in its closure
InStep ==
    /\ Indexes(versions) = [i \in 1..Len(versions) |-> i - 1]
    /\ NewVersionIndex(cv.env) = Len(versions)

\* C5, as stated: when createVersion succeeds while the cursor c is not on the
\* last position, versions becomes versions[0..c] followed by the new version;
\* here for a list whose cursor was moved back by handleUndo or a switch
C5_TruncatesAtCursor ==
    [][ ( /\ SaveSucceeds
          /\ InStep
          /\ 0 <= currentVersionIndex
          /\ currentVersionIndex < Len(versions) - 1 )
        => /\ Len(versions') = currentVersionIndex + 2
           /\ SubSeq(versions', 1, currentVersionIndex + 1)
                 = SubSeq(versions, 1, currentVersionIndex + 1)
           /\ SavingVersion(versions'[Len(versions')])
      ]_vars

\* C7, as the code has it: while no persistence call has failed, no two rows of
\* the session carry the same content_hash
C7_NoTwoRowsSameHash ==
    ~history.persistFailed =>
       \A r1 \in db : \A r2 \in db :
          r1.content_hash = r2.content_hash => r1 = r2

\* content that has a row was submitted again after other content, and
\* checkVersionExists found the row
C7_Witness ==
    /\ history.deduped
    /\ ~history.persistFailed
    /\ Cardinality(db) >= 3

\* C7, as stated: while no persistence call has failed, no content is inserted by
\* saveDocumentVersion more than once
C7_AtMostOneInsert ==
    ~history.persistFailed => ~history.reinserted

\* C8: when saveDocumentVersion returns null, the content is still the newest
\* entry of versions and the cursor is on it
C8_FailedSaveStillRecorded ==
    [][ SaveFails
        => /\ Len(versions') > 0
           /\ versions'[Len(versions')].blocks = cv.blocks
           /\ currentVersionIndex' = Len(versions') - 1
      ]_vars

\* C9: once nothing is pending, every content the document was given through
\* handleSetDocumentBlocks after loading has had a version with these blocks,
\* here in runs where no persistence call failed and every submission was made
\* after loading had finished
C9_EveryEditSaved ==
    (Quiescent /\ ~history.persistFailed /\ ~history.earlySend)
       => history.unsaved = {}

\* the handleSend calls whose request (/api/docrender, /api/chat) is in flight
InFlight == { i \in 1..Len(calls) : calls[i].pc \in {"edit_fetch", "gen_fetch", "chat_fetch"} }

\* C10: at most one edit or generation request is in flight at any time
C10_OneRequestInFlight == Cardinality(InFlight) <= 1

\* C14: a stored selection refers to the current document: a block with its blockId
\* exists and that block's content between startOffset and endOffset is its
\* originalMarkdown.
C14_SelectionRefersToDocument ==
    selection # Null =>
       \E i \in 1..Len(documentBlocks) :
          /\ documentBlocks[i].id = selection.blockId
          /\ Substring(documentBlocks[i].content, selection.startOffset,
                       selection.endOffset) = selection.originalMarkdown

\* the collaborator has failed, or its text is empty or white space only
AnswerFailed(answer) == ~answer.ok \/ Trim(answer.text) = <<>>

\* a step of a request whose collaborator has failed: the answer arrives, or the
\* request ends
FailedRequestStep ==
    \E i \in 1..Len(calls) :
       \/ /\ calls[i].pc \in {"edit_fetch", "gen_fetch"}
          /\ Len(calls') = Len(calls)
          /\ calls'[i].pc \in {"end_edit", "end_gen"}
          /\ AnswerFailed(calls'[i].answer)
       \/ /\ calls[i].pc \in {"end_edit", "end_gen"}
          /\ calls[i].answer # Null
          /\ AnswerFailed(calls[i].answer)
          /\ calls' = RemoveAt(calls, i)

\* C19: when the edit or the generation collaborator fails, or gives an empty or
\* white-space-only result, documentBlocks and the version history are left as they
\* are: nothing is spliced or appended and no snapshot is created or scheduled.
C19_FailureLeavesDocument ==
    [][FailedRequestStep =>
          UNCHANGED <<documentBlocks, versions, currentVersionIndex, timers, cv, db,
                      lastBlocksHashRef>>]_vars

\* an edit request on a block of the document has ended with a white-space-only text
C19_Witness ==
    \E i \in 1..Len(calls) :
       /\ calls[i].pc = "end_edit"
       /\ calls[i].answer.ok
       /\ AnswerFailed(calls[i].answer)
       /\ \E j \in 1..Len(documentBlocks) :
             documentBlocks[j].id = calls[i].selection.blockId

\* the selected text is not in the stripped text of content as it stands, and is in
\* it once runs of white space are collapsed in both
NormalizedMatchOnly(content, selectedText) ==
    LET stripped == CreatePositionMap(content).stripped
    IN  /\ IndexOf(stripped, selectedText, 0) = 0 - 1
        /\ IndexOf(CollapseSpaces(stripped), CollapseSpaces(selectedText), 0) # 0 - 1

\* C25: when the selection is found in the stripped text of its block only after
\* runs of white space are collapsed, content[startOffset] is the first character
\* of the selection, and content[startOffset .. endOffset) without its markers and
\* with its runs of white space collapsed is the selection.
C25_NormalizedMatchCoversSelection ==
    \A i \in 1..Len(documentBlocks) :
       LET content == documentBlocks[i].content
       IN  \A text \in TextsWithin(documentBlocks, i) :
              LET data == HandleMouseUp(documentBlocks, documentBlocks[i].id, text)
              IN  (data # Null /\ NormalizedMatchOnly(content, data.selectedText)) =>
                     /\ data.startOffset < Len(content)
                     /\ content[data.startOffset + 1] = data.selectedText[1]
                     /\ CollapseSpaces(RenderedText(data.originalMarkdown))
                           = data.selectedText

\* a createVersion call passes its guards in this step
PassesGuard == cv'.pc = "check" /\ cv' # cv

\* a createVersion call ends in this step
CallEnds == cv.pc # "idle" /\ cv'.pc = "idle"

\* a createVersion call arrives in this step while another awaits persistence
ArrivesWhileCreating == timers # <<>> /\ timers' = Tail(timers) /\ cv.pc # "idle"

\* C26: createVersion is mutually exclusive and never wedges: a call passes the
\* guard only while no other call is past it, a call arriving while another awaits
\* persistence changes neither versions nor the cursor nor the running call, every
\* end of a call (dedup hit, failed save, success) releases the guard, and the guard
\* is held only while a call is running.
C26_CreateVersionExclusive ==
    /\ [](isCreatingVersionRef <=> cv.pc # "idle")
    /\ [][ /\ PassesGuard => (cv.pc = "idle" /\ ~isCreatingVersionRef)
           /\ ArrivesWhileCreating =>
                 /\ cv' = cv
                 /\ versions' = versions
                 /\ currentVersionIndex' = currentVersionIndex
                 /\ lastBlocksHashRef' = lastBlocksHashRef
           /\ CallEnds => ~isCreatingVersionRef' ]_vars

\* after a failed save, a later createVersion call with other content has passed
\* the guard and awaits its own save, while a further call is waiting to run
C26_Witness ==
    /\ history.saveFailed
    /\ isCreatingVersionRef
    /\ cv.pc = "save"
    /\ timers # <<>>

\* the ids of the held snapshots, the ids of the rows of the table
HeldIds == { versions[i].id : i \in 1..Len(versions) }
RowIds == { r.id : r \in db }

\* C27: with no persistence call failed and none in flight, the versions list and
\* the document_versions rows hold the same snapshots: the same ids, and for each id
\* the same blocks, version_index and content_hash.
C27_MemoryMirrorsTable ==
    (Quiescent /\ ~history.persistFailed) =>
       /\ HeldIds = RowIds
       /\ \A i \in 1..Len(versions) : versions[i] \in db

\* both start-up loads have ended and nothing else has happened
JustLoaded ==
    /\ ~isLoadingVersions
    /\ ~isDocumentLoading
    /\ sends = 0

\* C29: once loadVersions and initSession have both completed with a non-empty
\* version list, documentBlocks is versions[currentVersionIndex].blocks, the latest
\* version, whichever of the two finished first.
C29_LoadedDocumentIsLatest ==
    (JustLoaded /\ versions # <<>>) =>
       /\ currentVersionIndex = Len(versions) - 1
       /\ documentBlocks = versions[currentVersionIndex + 1].blocks

\* C28: the versionIndex of the message that announced the last generation or edit
\* addresses the snapshot of that change: once the change has settled, in a run of
\* changes made one after the other with no failure, no overlap and no navigation,
\* handleSwitchToVersion(message.versionIndex) leaves the content that change
\* produced on display.
C28_MessageAddressesItsVersion ==
    (Quiescent /\ mops = 0 /\ history.announced # Null) =>
       SwitchedTo(versions, currentVersionIndex, documentBlocks,
                  history.announced.message.versionIndex).documentBlocks
          = history.announced.blocks

\* C30: a selection made inside the rendered text of block B is attributed to B:
\* the SelectionData has blockId = B.id and the offsets computed against
\* B.content, also when B is shown as a later member of a fenced-code group.
C30_SelectionAttributedToItsBlock ==
    \A i \in 1..Len(documentBlocks) :
       \A text \in TextsWithin(documentBlocks, i) :
          LET data == HandleMouseUp(documentBlocks,
                                    BlockElementId(documentBlocks, i), text)
              offsets == ComputeOffsets(documentBlocks[i].content,
                                        CollapseSpaces(Trim(text)))
          IN  /\ data # Null
              /\ data.blockId = documentBlocks[i].id
              /\ data.startOffset = offsets.startOffset
              /\ data.endOffset = offsets.endOffset

\* C24: handleSwitchToVersion(k) addresses snapshots by their version_index: if a
\* held snapshot has version_index = k and is not the current one, the cursor becomes
\* that snapshot's array position and documentBlocks its blocks; if no held snapshot
\* has version_index = k, or that snapshot is the current one, cursor and
\* documentBlocks stay.
C24_SwitchByVersionIndex ==
    \A k \in 0..MainMaxVersions :
       LET switched == SwitchedTo(versions, currentVersionIndex, documentBlocks, k)
       IN  /\ \A i \in 1..Len(versions) :
                (versions[i].version_index = k /\ i - 1 # currentVersionIndex) =>
                   /\ switched.currentVersionIndex = i - 1
                   /\ switched.documentBlocks = versions[i].blocks
           /\ ( \/ \A i \in 1..Len(versions) : versions[i].version_index # k
                \/ /\ currentVersionIndex >= 0
                   /\ currentVersionIndex < Len(versions)
                   /\ versions[currentVersionIndex + 1].version_index = k )
              => /\ switched.currentVersionIndex = currentVersionIndex
                 /\ switched.documentBlocks = documentBlocks

====
